---- MODULE Spec2Model ----
(***************************************************************************)
(* Return calculator of the S&P 500 predictor backend:                     *)
(*   backend/calculator.py  calculate_nominal_return, calculate_real_return*)
(*   backend/main.py        load_data_caches, POST /calculator, POST /ohlc *)
(*                                                                         *)
(* Floats are modelled as exact rationals extended with +-inf and NaN      *)
(* (numpy semantics: division by zero yields inf or NaN, never raises).    *)
(* Dates are day ordinals 0..MaxDate; a date string is a record that       *)
(* pd.to_datetime either parses or rejects.  Python dicts live in a heap   *)
(* of cells, so that in-place mutation and aliasing are visible.           *)
(***************************************************************************)
EXTENDS Integers, Sequences, FiniteSets, TLC

\* ------------------------------------------------------------------ bounds
\* Dates are the day ordinals 0..MaxDate.
MaxDate == 2

Dates == 0 .. MaxDate

\* The request threads of the server (Starlette runs sync endpoints in a pool).
Workers == {"w1", "w2"}

\* ------------------------------------------------------------------ floats
Abs(x) == IF x < 0 THEN -x ELSE x

Sgn(x) == IF x < 0 THEN -1 ELSE IF x > 0 THEN 1 ELSE 0

RECURSIVE Gcd(_, _)
Gcd(a, b) == IF b = 0 THEN a ELSE Gcd(b, a % b)

\* The rational n/d in lowest terms, d > 0.
Num(n, d) ==
    LET g == Gcd(Abs(n), Abs(d))
        s == IF d < 0 THEN -1 ELSE 1
    IN  [k |-> "num", n |-> (s * n) \div g, d |-> (s * d) \div g]

Whole(n) == [k |-> "num", n |-> n, d |-> 1]

NaN == [k |-> "nan", n |-> 0, d |-> 1]

Inf(s) == [k |-> "inf", n |-> s, d |-> 1]

IsNaN(a) == a.k = "nan"

IsFinite(a) == a.k = "num"

Sign(a) == Sgn(a.n)

\* IEEE comparison: NaN is equal to nothing, itself included.
FEq(a, b) == ~IsNaN(a) /\ ~IsNaN(b) /\ a = b

\* a > 0 (False for NaN).
FPos(a) == ~IsNaN(a) /\ Sign(a) > 0

FNeg(a) == [a EXCEPT !.n = -a.n]

FAdd(a, b) ==
    IF IsNaN(a) \/ IsNaN(b) THEN NaN
    ELSE IF a.k = "inf" /\ b.k = "inf" THEN (IF a.n = b.n THEN a ELSE NaN)
    ELSE IF a.k = "inf" THEN a
    ELSE IF b.k = "inf" THEN b
    ELSE Num(a.n * b.d + b.n * a.d, a.d * b.d)

FSub(a, b) == FAdd(a, FNeg(b))

FMul(a, b) ==
    IF IsNaN(a) \/ IsNaN(b) THEN NaN
    ELSE IF a.k = "inf" \/ b.k = "inf"
         THEN (IF Sign(a) * Sign(b) = 0 THEN NaN ELSE Inf(Sign(a) * Sign(b)))
    ELSE Num(a.n * b.n, a.d * b.d)

\* numpy float64 division: x/0 is +-inf, 0/0 is NaN, nothing is raised.
FDiv(a, b) ==
    IF IsNaN(a) \/ IsNaN(b) THEN NaN
    ELSE IF b.k = "inf" THEN (IF a.k = "inf" THEN NaN ELSE Whole(0))
    ELSE IF b.n = 0 THEN (IF Sign(a) = 0 THEN NaN ELSE Inf(Sign(a)))
    ELSE IF a.k = "inf" THEN Inf(Sign(a) * Sign(b))
    ELSE Num(a.n * b.d, a.d * b.n)

\* round(x, 2): to the nearest hundredth, ties to even; inf and NaN stay.
Round2(a) ==
    IF a.k # "num" THEN a
    ELSE LET m == a.n * 100
             q == m \div a.d
             r == m - q * a.d
             up == IF 2 * r > a.d THEN 1
                   ELSE IF 2 * r < a.d THEN 0
                   ELSE q % 2
         IN  Num(q + up, 100)

\* base ** e for a finite exponent e > 0 (numpy float64).  The special cases
\* are computed; any other power is kept as a symbolic term.
Pow(base, e) ==
    IF IsNaN(base) THEN NaN
    ELSE IF Sign(base) < 0 THEN NaN
    ELSE IF base.k = "inf" \/ base = Whole(0) \/ base = Whole(1) THEN base
    ELSE [k |-> "pow", base |-> base, e |-> e]

\* round((x - 1) * 100, 2); symbolic when x is a symbolic power.
GrowthPct(x) ==
    IF x.k = "pow" THEN [k |-> "pct", of |-> x]
    ELSE Round2(FMul(FSub(x, Whole(1)), Whole(100)))

\* ------------------------------------------------------------ time series
\* Values a FRED observation can hold after pd.to_numeric(errors='coerce').
Values == {Whole(0), Whole(2), Whole(3), NaN}

RECURSIVE Ascending(_)
Ascending(S) ==
    IF S = {} THEN <<>>
    ELSE LET m == CHOOSE x \in S : \A y \in S : x <= y
         IN  <<m>> \o Ascending(S \ {m})

\* A DataFrame with a sorted DatetimeIndex and a 'value' column.
Frame(S, f) ==
    LET ds == Ascending(S)
    IN  [i \in 1 .. Len(ds) |-> [date |-> ds[i], value |-> f[ds[i]]]]

SeriesSet ==
    UNION {{Frame(S, f) : f \in [S -> Values]} : S \in (SUBSET Dates) \ {{}}}

\* pd.DataFrame(): what every fetch function returns on failure.
EmptyFrame == <<>>

\* ----------------------------------------------------------- date strings
strftime(d) == [fmt |-> "%Y-%m-%d", day |-> d]

NotADate == [fmt |-> "?", day |-> 0]

DateStrings == {strftime(d) : d \in Dates} \cup {NotADate}

Parses(s) == s.fmt = "%Y-%m-%d"

to_datetime(s) == s.day

\* ------------------------------------------------------------- calculator
InsufficientSP500 == "Insufficient S&P 500 data for the selected period."

InsufficientCPI == "Insufficient CPI data for the selected period."

NominalNote == "Simplified calculation without actual dividend reinvestment."

DivisionByZero == "Real return calculation error: float division by zero"

RealNote ==
    "Simplified nominal return (no dividend reinvestment). Real return adjusted using CPI."

\* sp500_data[(index >= start_dt) & (index <= end_dt)]: a new frame.
Restrict(series, start_dt, end_dt) ==
    SelectSeq(series, LAMBDA o : o.date >= start_dt /\ o.date <= end_dt)

\* Variant: partial coverage gives up too.
NominalGivesUpOnGap(relevant_data, start_dt, end_dt) ==
    \/ relevant_data = <<>>
    \/ relevant_data[1].date > start_dt
    \/ relevant_data[Len(relevant_data)].date < end_dt

\* The condition under which the nominal step gives up: the warning branch
\* is entered on partial coverage, but only an empty selection returns.
NominalGivesUp(relevant_data, start_dt, end_dt) ==
    /\ \/ relevant_data = <<>>
       \/ relevant_data[1].date > start_dt
       \/ relevant_data[Len(relevant_data)].date < end_dt
    /\ relevant_data = <<>>

\* (end_dt - start_dt).days / 365.25
Years(start_dt, end_dt) == Num((end_dt - start_dt) * 4, 1461)

\* Variant: the price return taken for the factor.
TotalReturnFactorIsReturn(start_price, end_price, years) ==
    FSub(FDiv(end_price, start_price), Whole(1))

\* price_return and estimated_total_return_factor: price appreciation only,
\* the dividend term (1 + 0.015 * years) is commented out in the source.
TotalReturnFactor(start_price, end_price, years) ==
    LET price_return == FSub(FDiv(end_price, start_price), Whole(1))
    IN  FAdd(Whole(1), price_return)

calculate_nominal_return(start_date, end_date, initial_investment, sp500_data) ==
    IF ~Parses(start_date) \/ ~Parses(end_date)
    THEN [error |-> "Calculation error: unknown datetime string format"]
    ELSE
    LET start_dt == to_datetime(start_date)
        end_dt == to_datetime(end_date)
        relevant_data == Restrict(sp500_data, start_dt, end_dt)
    IN  IF NominalGivesUp(relevant_data, start_dt, end_dt)
        THEN [error |-> InsufficientSP500]
        ELSE
        LET start_price == relevant_data[1].value
            end_price == relevant_data[Len(relevant_data)].value
            years == Years(start_dt, end_dt)
            estimated_total_return_factor ==
                TotalReturnFactor(start_price, end_price, years)
            final_value == FMul(initial_investment, estimated_total_return_factor)
            total_return_pct == FSub(estimated_total_return_factor, Whole(1))
        IN  [start_date |-> start_date,
             end_date |-> end_date,
             initial_investment |-> initial_investment,
             final_nominal_value |-> Round2(final_value),
             nominal_total_return_pct |-> Round2(FMul(total_return_pct, Whole(100))),
             calculation_notes |-> NominalNote]

\* The while loop of Series.asof: step back over NaN values, stop at the first row.
RECURSIVE SkipNaN(_, _)
SkipNaN(series, loc) ==
    IF loc > 1 /\ IsNaN(series[loc].value) THEN SkipNaN(series, loc - 1) ELSE loc

\* cpi_data['value'].asof(where) on a sorted index.
asof(series, where) ==
    IF where < series[1].date THEN NaN
    ELSE LET loc == Cardinality({i \in 1 .. Len(series) : series[i].date <= where})
         IN  series[SkipNaN(series, loc)].value

\* Variant: years >= 0.
CagrDefinedNonNegative(years) == ~IsNaN(years) /\ Sign(years) >= 0

\* The guard of the CAGR branch.
CagrDefined(years) == FPos(years)

\* Variant: the zero check left out.
CpiUnusableNaNOnly(cpi_start_val, cpi_end_val) ==
    IsNaN(cpi_start_val) \/ IsNaN(cpi_end_val)

\* pd.isna(cpi_start_val) or pd.isna(cpi_end_val) or cpi_start_val == 0
CpiUnusable(cpi_start_val, cpi_end_val) ==
    IsNaN(cpi_start_val) \/ IsNaN(cpi_end_val) \/ FEq(cpi_start_val, Whole(0))

\* dict[key] = value
SetItem(dict, key, value) == (key :> value) @@ dict

\* Variant: the percentage taken for the factor.
NominalFactorNoOne(nominal_total_return_pct) ==
    FDiv(nominal_total_return_pct, Whole(100))

\* 1 + nominal_result["nominal_total_return_pct"] / 100.0
NominalFactor(nominal_total_return_pct) ==
    FAdd(Whole(1), FDiv(nominal_total_return_pct, Whole(100)))

\* Variant: the message stored in nominal_result, which is returned.
FailMerged(nominal_result, message, trace) ==
    [alias |-> TRUE, ret |-> ("error" :> message) @@ nominal_result,
     arg |-> ("error" :> message) @@ nominal_result, evaluated |-> trace]

\* return {"error": message}: a new dict, nominal_result as it stands.
Fail(nominal_result, message, trace) ==
    [alias |-> FALSE, ret |-> [error |-> message], arg |-> nominal_result,
     evaluated |-> trace]

\* The outcome of one call: ret is the returned dict, alias tells whether it is
\* the nominal_result object itself, arg is nominal_result as the call leaves
\* it, and evaluated lists the guarded operations the call carried out.
calculate_real_return(nominal_result, start_date, end_date, cpi_data) ==
    IF "error" \in DOMAIN nominal_result
    THEN [alias |-> TRUE, ret |-> nominal_result, arg |-> nominal_result,
          evaluated |-> {}]
    ELSE IF ~Parses(start_date) \/ ~Parses(end_date)
    THEN Fail(nominal_result,
              "Real return calculation error: unknown datetime string format", {})
    ELSE IF cpi_data = EmptyFrame
    THEN \* pd.DataFrame() has no 'value' column: KeyError, caught.
         Fail(nominal_result, "Real return calculation error: 'value'", {})
    ELSE
    LET start_dt == to_datetime(start_date)
        end_dt == to_datetime(end_date)
        cpi_start_val == asof(cpi_data, start_dt)
        cpi_end_val == asof(cpi_data, end_dt)
    IN  IF CpiUnusable(cpi_start_val, cpi_end_val)
        THEN Fail(nominal_result, InsufficientCPI, {"asof"})
        ELSE
        LET inflation_rate == FSub(FDiv(cpi_end_val, cpi_start_val), Whole(1))
            nominal_total_return_factor ==
                NominalFactor(nominal_result.nominal_total_return_pct)
            real_return_factor ==
                FDiv(nominal_total_return_factor, FAdd(Whole(1), inflation_rate))
            real_total_return_pct == FMul(FSub(real_return_factor, Whole(1)), Whole(100))
            final_real_value == FMul(nominal_result.initial_investment, real_return_factor)
            d1 == SetItem(nominal_result, "final_real_value", Round2(final_real_value))
            d2 == SetItem(d1, "real_total_return_pct", Round2(real_total_return_pct))
            d3 == SetItem(d2, "total_inflation_pct",
                          Round2(FMul(inflation_rate, Whole(100))))
            years == Years(start_dt, end_dt)
            d5 == IF CagrDefined(years)
                  THEN LET e == FDiv(Whole(1), years)
                           d4 == SetItem(d3, "nominal_cagr_pct",
                                         GrowthPct(Pow(nominal_total_return_factor, e)))
                       IN  SetItem(d4, "real_cagr_pct",
                                   GrowthPct(Pow(real_return_factor, e)))
                  ELSE SetItem(SetItem(d3, "nominal_cagr_pct", Whole(0)),
                               "real_cagr_pct", Whole(0))
            d6 == SetItem(d5, "calculation_notes", RealNote)
        IN  IF CagrDefined(years) /\ years = Whole(0)
            THEN \* 1/years on Python floats raises ZeroDivisionError; the
                 \* except clause returns a new error dict.
                 Fail(d3, DivisionByZero, {"asof", "cpi_division", "exponent"})
            ELSE [alias |-> TRUE, ret |-> d6, arg |-> d6,
                  evaluated |-> {"asof", "cpi_division"}
                                \cup (IF CagrDefined(years) THEN {"exponent"} ELSE {})]

\* ------------------------------------------------------------------ state
VARIABLES
    SP500_DATA_CACHE,   \* module global of main.py
    CPI_DATA_CACHE,     \* module global of main.py
    pc,                 \* where each thread stands
    data,               \* the CalculatorInput / OHLCInput of the thread's request
    args,               \* the arguments of the thread's current calculator call
    nominal_result,     \* the thread's local: a reference to a dict
    final_result,       \* the thread's local: a reference to a dict
    evaluated,          \* guarded operations the last calculate_real_return ran
    response,           \* the thread's HTTP response
    heap                \* the dicts the calculator functions created

vars == <<SP500_DATA_CACHE, CPI_DATA_CACHE, pc, data, args, nominal_result,
          final_result, evaluated, response, heap>>

\* A global that is still None, and one bound to a DataFrame.
None == [bound |-> FALSE, df |-> EmptyFrame]

Bound(df) == [bound |-> TRUE, df |-> df]

\* References to dicts; every thread holds at most two.
Refs == 1 .. (2 * Cardinality(Workers))

NoRef == 0

NoDict == <<>>

IsFree(cell) == DOMAIN cell = {}

\* Variant: one module-level dict, handed out to every call.
SharedDict(h) == CHOOSE r \in Refs : \A q \in Refs : r <= q

\* A dict display {...} evaluates to a new object: a cell no one holds.
NewDict(h) == CHOOSE r \in Refs : IsFree(h[r]) /\ \A q \in Refs : q < r => ~IsFree(h[q])

NoRequest == [path |-> "", start_date |-> 0, end_date |-> 0, initial_investment |-> NaN]

NoArgs == [start_date |-> NotADate, end_date |-> NotADate,
           initial_investment |-> NaN, series |-> EmptyFrame]

NoResponse == [status |-> 0, detail |-> "", body |-> NoDict]

HTTPException(status_code, detail) ==
    [status |-> status_code, detail |-> detail, body |-> NoDict]

Ok(body) == [status |-> 200, detail |-> "", body |-> body]

\* initial_investment: float -- pydantic accepts any float, inf included.
Investments == {Num(201, 200), Whole(0), Whole(-100), Inf(1)}

Init ==
    /\ SP500_DATA_CACHE = None
    /\ CPI_DATA_CACHE = None
    /\ pc = [w \in Workers |-> "idle"]
    /\ data = [w \in Workers |-> NoRequest]
    /\ args = [w \in Workers |-> NoArgs]
    /\ nominal_result = [w \in Workers |-> NoRef]
    /\ final_result = [w \in Workers |-> NoRef]
    /\ evaluated = [w \in Workers |-> {}]
    /\ response = [w \in Workers |-> NoResponse]
    /\ heap = [r \in Refs |-> NoDict]

\* ---------------------------------------------------------------- startup
\* An observation on every date from first on: v0 on the first, v1 after it.
Observed(first, v0, v1) ==
    [i \in 1 .. (MaxDate - first + 1) |->
        [date |-> first + i - 1, value |-> IF i = 1 THEN v0 ELSE v1]]

\* What fetch_fred_data("SP500") can return: the empty frame on any failure.
FetchedSP500 ==
    {EmptyFrame, Observed(0, Whole(2), Whole(3)), Observed(MaxDate, Whole(3), Whole(3))}

\* What fetch_fred_data("CPIAUCSL") can return.
FetchedCPI ==
    {EmptyFrame, Observed(0, Whole(2), Whole(3)), Observed(1, Whole(2), Whole(2)),
     Observed(0, Whole(0), Whole(2))}

load_data_caches ==
    /\ ~SP500_DATA_CACHE.bound
    /\ \E sp \in FetchedSP500, cpi \in FetchedCPI :
          /\ SP500_DATA_CACHE' = Bound(sp)
          /\ CPI_DATA_CACHE' = Bound(cpi)
    /\ UNCHANGED <<pc, data, args, nominal_result, final_result, evaluated,
                   response, heap>>

\* ------------------------------------------------------- POST /calculator
Receive(w) ==
    /\ pc[w] = "idle"
    /\ \E s \in Dates, e \in Dates, inv \in Investments :
          data' = [data EXCEPT ![w] =
                      [path |-> "/calculator", start_date |-> s, end_date |-> e,
                       initial_investment |-> inv]]
    /\ pc' = [pc EXCEPT ![w] = "check_cache"]
    /\ UNCHANGED <<SP500_DATA_CACHE, CPI_DATA_CACHE, args, nominal_result,
                   final_result, evaluated, response, heap>>

\* Variant: only None is checked.
UnavailableNoneOnly ==
    \/ ~SP500_DATA_CACHE.bound
    \/ ~CPI_DATA_CACHE.bound

\* X is None or X.empty, for both caches
Unavailable ==
    \/ ~SP500_DATA_CACHE.bound
    \/ ~CPI_DATA_CACHE.bound
    \/ SP500_DATA_CACHE.df = EmptyFrame
    \/ CPI_DATA_CACHE.df = EmptyFrame

CheckCache(w) ==
    /\ pc[w] = "check_cache"
    /\ IF Unavailable
       THEN /\ response' = [response EXCEPT ![w] = HTTPException(503,
                   "Historical data is not available or failed to load. Please try again later.")]
            /\ pc' = [pc EXCEPT ![w] = "done"]
       ELSE /\ pc' = [pc EXCEPT ![w] = "check_range"]
            /\ UNCHANGED response
    /\ UNCHANGED <<SP500_DATA_CACHE, CPI_DATA_CACHE, data, args, nominal_result,
                   final_result, evaluated, heap>>

\* Variant: start_date > end_date.
InvalidRangeStrict(d) == d.start_date > d.end_date

InvalidRange(d) == d.start_date >= d.end_date

CheckRange(w) ==
    /\ pc[w] = "check_range"
    /\ IF InvalidRange(data[w])
       THEN /\ response' = [response EXCEPT ![w] =
                   HTTPException(400, "Start date must be before end date.")]
            /\ pc' = [pc EXCEPT ![w] = "done"]
       ELSE /\ pc' = [pc EXCEPT ![w] = "call_nominal"]
            /\ UNCHANGED response
    /\ UNCHANGED <<SP500_DATA_CACHE, CPI_DATA_CACHE, data, args, nominal_result,
                   final_result, evaluated, heap>>

CallNominal(w) ==
    /\ pc[w] = "call_nominal"
    /\ LET start_date_str == strftime(data[w].start_date)
           end_date_str == strftime(data[w].end_date)
           result == calculate_nominal_return(start_date_str, end_date_str,
                        data[w].initial_investment, SP500_DATA_CACHE.df)
           ref == NewDict(heap)
       IN  /\ args' = [args EXCEPT ![w] =
                  [start_date |-> start_date_str, end_date |-> end_date_str,
                   initial_investment |-> data[w].initial_investment,
                   series |-> SP500_DATA_CACHE.df]]
           /\ heap' = [heap EXCEPT ![ref] = result]
           /\ nominal_result' = [nominal_result EXCEPT ![w] = ref]
           /\ IF "error" \in DOMAIN result
              THEN /\ response' = [response EXCEPT ![w] =
                          HTTPException(400, "Nominal calculation error")]
                   /\ pc' = [pc EXCEPT ![w] = "done"]
              ELSE /\ pc' = [pc EXCEPT ![w] = "call_real"]
                   /\ UNCHANGED response
    /\ UNCHANGED <<SP500_DATA_CACHE, CPI_DATA_CACHE, data, final_result, evaluated>>

\* The effect of calculate_real_return on the heap and on the caller's locals.
ApplyReal(w, cpi_data) ==
    LET out == calculate_real_return(heap[nominal_result[w]], args[w].start_date,
                                     args[w].end_date, cpi_data)
        h1 == [heap EXCEPT ![nominal_result[w]] = out.arg]
        ref == IF out.alias THEN nominal_result[w] ELSE NewDict(h1)
    IN  /\ heap' = [h1 EXCEPT ![ref] = out.ret]
        /\ final_result' = [final_result EXCEPT ![w] = ref]
        /\ evaluated' = [evaluated EXCEPT ![w] = out.evaluated]
        /\ args' = [args EXCEPT ![w].series = cpi_data]

CallReal(w) ==
    /\ pc[w] = "call_real"
    /\ ApplyReal(w, CPI_DATA_CACHE.df)
    /\ response' = [response EXCEPT ![w] =
          IF "error" \in DOMAIN heap'[final_result'[w]]
          THEN HTTPException(400, "Real calculation error")
          ELSE Ok(heap'[final_result'[w]])]
    /\ pc' = [pc EXCEPT ![w] = "done"]
    /\ UNCHANGED <<SP500_DATA_CACHE, CPI_DATA_CACHE, data, nominal_result>>

\* The response is sent and the thread's locals go out of scope.
Release(w) ==
    /\ pc' = [pc EXCEPT ![w] = "idle"]
    /\ data' = [data EXCEPT ![w] = NoRequest]
    /\ args' = [args EXCEPT ![w] = NoArgs]
    /\ heap' = [r \in Refs |->
          IF r \in {nominal_result[w], final_result[w]} THEN NoDict ELSE heap[r]]
    /\ nominal_result' = [nominal_result EXCEPT ![w] = NoRef]
    /\ final_result' = [final_result EXCEPT ![w] = NoRef]
    /\ evaluated' = [evaluated EXCEPT ![w] = {}]
    /\ response' = [response EXCEPT ![w] = NoResponse]
    /\ UNCHANGED <<SP500_DATA_CACHE, CPI_DATA_CACHE>>

Finish(w) ==
    /\ pc[w] = "done"
    /\ Release(w)

\* ------------------------------------------------------------- POST /ohlc
\* fetch_ohlc_data: the empty frame, or a row for every day of the range.
FetchedOHLC(start, end) ==
    {EmptyFrame, [i \in 1 .. (end - start + 1) |-> [Date |-> strftime(start + i - 1)]]}

get_ohlc_data_endpoint(w) ==
    /\ pc[w] = "idle"
    /\ \E s \in Dates, e \in Dates :
          /\ data' = [data EXCEPT ![w] =
                [path |-> "/ohlc", start_date |-> s, end_date |-> e,
                 initial_investment |-> NaN]]
          /\ IF s >= e
             THEN response' = [response EXCEPT ![w] =
                     HTTPException(400, "Start date must be before end date.")]
             ELSE \E ohlc_df \in FetchedOHLC(s, e) :
                     response' = [response EXCEPT ![w] =
                        IF ohlc_df = EmptyFrame
                        THEN HTTPException(404, "No OHLC data found")
                        ELSE Ok([ticker |-> "^GSPC", data |-> ohlc_df])]
    /\ pc' = [pc EXCEPT ![w] = "done"]
    /\ UNCHANGED <<SP500_DATA_CACHE, CPI_DATA_CACHE, args, nominal_result,
                   final_result, evaluated, heap>>

Next ==
    \/ load_data_caches
    \/ \E w \in Workers :
          \/ Receive(w)
          \/ CheckCache(w)
          \/ CheckRange(w)
          \/ CallNominal(w)
          \/ CallReal(w)
          \/ Finish(w)
          \/ get_ohlc_data_endpoint(w)

Spec == Init /\ [][Next]_vars

\* ---------------------------------------------------------- direct calls
\* The calculator functions called as a library, one after the other, by a
\* single caller that keeps the nominal result and hands it to the real step.
Caller == CHOOSE w \in Workers : TRUE

DirectNominal(w) ==
    /\ pc[w] = "idle"
    /\ \E start_date \in DateStrings, end_date \in DateStrings,
          initial_investment \in Investments, sp500_data \in SeriesSet :
          LET ref == NewDict(heap)
          IN  /\ args' = [args EXCEPT ![w] =
                     [start_date |-> start_date, end_date |-> end_date,
                      initial_investment |-> initial_investment,
                      series |-> sp500_data]]
              /\ heap' = [heap EXCEPT ![ref] =
                     calculate_nominal_return(start_date, end_date,
                                              initial_investment, sp500_data)]
              /\ nominal_result' = [nominal_result EXCEPT ![w] = ref]
    /\ pc' = [pc EXCEPT ![w] = "nominal_returned"]
    /\ UNCHANGED <<SP500_DATA_CACHE, CPI_DATA_CACHE, data, final_result,
                   evaluated, response>>

\* The frame of calculate_nominal_return is gone: its view of the series too.
DirectKeep(w) ==
    /\ pc[w] = "nominal_returned"
    /\ args' = [args EXCEPT ![w].series = EmptyFrame]
    /\ pc' = [pc EXCEPT ![w] = "call_real"]
    /\ UNCHANGED <<SP500_DATA_CACHE, CPI_DATA_CACHE, data, nominal_result,
                   final_result, evaluated, response, heap>>

DirectReal(w) ==
    /\ pc[w] = "call_real"
    /\ \E cpi_data \in SeriesSet : ApplyReal(w, cpi_data)
    /\ pc' = [pc EXCEPT ![w] = "real_returned"]
    /\ UNCHANGED <<SP500_DATA_CACHE, CPI_DATA_CACHE, data, nominal_result, response>>

DirectDone(w) ==
    /\ pc[w] = "real_returned"
    /\ Release(w)

CalcNext ==
    \/ DirectNominal(Caller)
    \/ DirectKeep(Caller)
    \/ DirectReal(Caller)
    \/ DirectDone(Caller)

CalcSpec == Init /\ [][CalcNext]_vars

\* ================================================================ claims
\* ---- the calculator functions, under CalcSpec
NominalFields ==
    {"start_date", "end_date", "initial_investment", "final_nominal_value",
     "nominal_total_return_pct", "calculation_notes"}

RealFields ==
    {"final_real_value", "real_total_return_pct", "total_inflation_pct",
     "nominal_cagr_pct", "real_cagr_pct"}

NominalErrors ==
    {InsufficientSP500, "Calculation error: unknown datetime string format"}

\* The state right after calculate_nominal_return returned to the caller.
AfterNominal == pc[Caller] = "nominal_returned"

\* The state right after calculate_real_return returned to the caller.
AfterReal == pc[Caller] = "real_returned"

NominalDict == heap[nominal_result[Caller]]

FinalDict == heap[final_result[Caller]]

IsError(dict) == "error" \in DOMAIN dict

DatesParse == Parses(args[Caller].start_date) /\ Parses(args[Caller].end_date)

StartDay == args[Caller].start_date.day

EndDay == args[Caller].end_date.day

\* The observations of the series argument dated within [start, end].
InRange == {i \in 1 .. Len(args[Caller].series) :
               /\ args[Caller].series[i].date >= StartDay
               /\ args[Caller].series[i].date <= EndDay}

FirstInRange == args[Caller].series[CHOOSE i \in InRange : \A j \in InRange : i <= j]

LastInRange == args[Caller].series[CHOOSE i \in InRange : \A j \in InRange : i >= j]

PartlyCovered ==
    /\ DatesParse
    /\ InRange # {}
    /\ (FirstInRange.date > StartDay \/ LastInRange.date < EndDay)

FullyCovered ==
    /\ DatesParse
    /\ InRange # {}
    /\ FirstInRange.date = StartDay
    /\ LastInRange.date = EndDay

\* C1 as claimed: calculate_nominal_return returns an error record, and no
\* return field, whenever the in-range observations are non-empty but start
\* after start or stop before end.
C1_CoverageCheck ==
    (AfterNominal /\ PartlyCovered) => DOMAIN NominalDict = {"error"}

\* C1 as amended: the InsufficientData error is returned exactly when no
\* observation lies in [start, end]; from partially covering observations the
\* function computes the return of the first and last in-range values.
C1_EmptinessCheck ==
    (AfterNominal /\ DatesParse) =>
        /\ (InRange = {}) <=> IsError(NominalDict)
        /\ InRange = {} => NominalDict = [error |-> InsufficientSP500]
        /\ PartlyCovered =>
              /\ DOMAIN NominalDict = NominalFields
              /\ NominalDict.nominal_total_return_pct =
                    Round2(FMul(FSub(FDiv(LastInRange.value, FirstInRange.value),
                                     Whole(1)), Whole(100)))

C1_Witness ==
    /\ AfterNominal
    /\ PartlyCovered
    /\ ~IsError(NominalDict)
    /\ IsFinite(NominalDict.nominal_total_return_pct)

\* C4: every dict the two functions return is either an error record holding
\* only "error" or a record without "error" holding every field of its stage;
\* a nominal-stage error handed to calculate_real_return comes back as the
\* same object, still holding only its message.
C4_ErrorOrComplete ==
    /\ AfterNominal =>
          IF IsError(NominalDict) THEN DOMAIN NominalDict = {"error"}
          ELSE DOMAIN NominalDict = NominalFields
    /\ AfterReal =>
          /\ IF IsError(FinalDict) THEN DOMAIN FinalDict = {"error"}
             ELSE DOMAIN FinalDict = NominalFields \cup RealFields
          /\ IsError(NominalDict) =>
                /\ final_result[Caller] = nominal_result[Caller]
                /\ FinalDict.error \in NominalErrors

C4_Witness ==
    /\ AfterReal
    /\ ~IsError(NominalDict)
    /\ IsError(FinalDict)
    /\ FinalDict.error = InsufficientCPI

\* The value of the latest observation dated at or before day that holds a
\* number; NaN when there is none.
KnownRows(day) ==
    {i \in 1 .. Len(args[Caller].series) :
        /\ args[Caller].series[i].date <= day
        /\ ~IsNaN(args[Caller].series[i].value)}

Known(day) ==
    IF KnownRows(day) = {} THEN NaN
    ELSE args[Caller].series[CHOOSE i \in KnownRows(day) :
                                \A j \in KnownRows(day) : i >= j].value

CpiMissing ==
    IsNaN(Known(StartDay)) \/ IsNaN(Known(EndDay)) \/ Known(StartDay) = Whole(0)

\* The real step ran on a nominal success record with dates that parse.
RealStepRan == AfterReal /\ DatesParse /\ ~IsError(NominalDict)

ElapsedDays == EndDay - StartDay

\* C8: with elapsed days <= 0 both CAGR fields are 0 and no exponent is
\* evaluated; with elapsed days > 0 both are the factors raised to 1/years,
\* years = days / 365.25; no call ends in a division by zero.
C8_CagrGuard ==
    /\ AfterReal /\ IsError(FinalDict) => FinalDict.error # DivisionByZero
    /\ (RealStepRan /\ ~IsError(FinalDict)) =>
          IF ElapsedDays <= 0
          THEN /\ FinalDict.nominal_cagr_pct = Whole(0)
               /\ FinalDict.real_cagr_pct = Whole(0)
               /\ "exponent" \notin evaluated[Caller]
          ELSE LET e == Num(1461, 4 * ElapsedDays)
                   nf == FAdd(Whole(1),
                              FDiv(FinalDict.nominal_total_return_pct, Whole(100)))
                   rf == FDiv(nf, FDiv(Known(EndDay), Known(StartDay)))
               IN  /\ "exponent" \in evaluated[Caller]
                   /\ FinalDict.nominal_cagr_pct = GrowthPct(Pow(nf, e))
                   /\ FinalDict.real_cagr_pct = GrowthPct(Pow(rf, e))

C8_Witness ==
    /\ RealStepRan
    /\ ~IsError(FinalDict)
    /\ ElapsedDays = 0
    /\ FinalDict.nominal_cagr_pct = Whole(0)
    /\ FinalDict.real_cagr_pct = Whole(0)
    /\ "exponent" \notin evaluated[Caller]

EqualPrices == FullyCovered /\ FEq(FirstInRange.value, LastInRange.value)

\* C9 as claimed: on a covered range whose first and last prices are equal the
\* nominal return is 0 and the final value is the initial investment itself.
C9_EqualPricesKeepInvestment ==
    (AfterNominal /\ EqualPrices) =>
        /\ ~IsError(NominalDict)
        /\ NominalDict.nominal_total_return_pct = Whole(0)
        /\ NominalDict.final_nominal_value = args[Caller].initial_investment

\* C9 as amended: for equal prices other than 0 the nominal return is 0 and
\* the final value is the initial investment rounded to 2 decimals.
C9_EqualPricesRoundedInvestment ==
    (AfterNominal /\ EqualPrices /\ FirstInRange.value # Whole(0)) =>
        /\ ~IsError(NominalDict)
        /\ NominalDict.nominal_total_return_pct = Whole(0)
        /\ NominalDict.final_nominal_value = Round2(args[Caller].initial_investment)

C9_Witness ==
    /\ AfterNominal
    /\ EqualPrices
    /\ FirstInRange.value = Whole(3)
    /\ StartDay < EndDay
    /\ args[Caller].initial_investment = Num(201, 200)
    /\ NominalDict.final_nominal_value = Whole(1)

ZeroInflation == FEq(Known(StartDay), Known(EndDay))

\* C10 as claimed: with equal CPI values at start and end the real total
\* return is 0, whatever the nominal return.
C10_ZeroInflationZeroReal ==
    (/\ RealStepRan
     /\ ~IsError(FinalDict)
     /\ ZeroInflation
     /\ IsFinite(FinalDict.nominal_total_return_pct)) =>
        FinalDict.real_total_return_pct = Whole(0)

\* C10 as amended: with equal CPI values at start and end the inflation is 0
\* and the real total return equals the nominal total return of the record.
C10_ZeroInflationRealIsNominal ==
    (RealStepRan /\ ~IsError(FinalDict) /\ ZeroInflation) =>
        /\ FinalDict.total_inflation_pct = Whole(0)
        /\ ~IsNaN(FinalDict.nominal_total_return_pct) =>
              FinalDict.real_total_return_pct = FinalDict.nominal_total_return_pct

C10_Witness ==
    /\ RealStepRan
    /\ ~IsError(FinalDict)
    /\ ZeroInflation
    /\ FinalDict.nominal_total_return_pct = Whole(50)
    /\ FinalDict.real_total_return_pct = Whole(50)

\* ---- the server, under Spec
\* A cache that is None or holds the empty frame.
CacheMissing ==
    \/ SP500_DATA_CACHE = None
    \/ CPI_DATA_CACHE = None
    \/ SP500_DATA_CACHE.df = <<>>
    \/ CPI_DATA_CACHE.df = <<>>

CalculatorRequest(w) == data[w].path = "/calculator"

StartNotBeforeEnd(w) == data[w].start_date >= data[w].end_date

\* The step in which the handler of w's /calculator request ends.
Completes(w) == CalculatorRequest(w) /\ pc[w] # "done" /\ pc'[w] = "done"

NoCalculatorCalled(w) ==
    /\ nominal_result'[w] = NoRef
    /\ final_result'[w] = NoRef
    /\ args'[w] = NoArgs

\* C2 as claimed: a /calculator request with start_date >= end_date is
\* answered 400, whatever the state of the two caches.
C2_InvalidRangeAlways400 ==
    \A w \in Workers :
        (pc[w] = "done" /\ CalculatorRequest(w) /\ StartNotBeforeEnd(w)) =>
            response[w].status = 400

\* C2 as amended: a /calculator request with start_date >= end_date is
\* answered 503 when a cache is unloaded or empty and 400 InvalidRange when
\* both are loaded; either way no calculator function has been called.
C2_InvalidRangeAfterCacheCheck ==
    [][\A w \in Workers :
          (Completes(w) /\ StartNotBeforeEnd(w)) =>
              /\ response'[w] =
                    IF CacheMissing
                    THEN HTTPException(503,
                            "Historical data is not available or failed to load. Please try again later.")
                    ELSE HTTPException(400, "Start date must be before end date.")
              /\ NoCalculatorCalled(w)]_vars

C2_Witness ==
    \E w \in Workers :
        /\ pc[w] = "done"
        /\ CalculatorRequest(w)
        /\ data[w].start_date = data[w].end_date
        /\ response[w].status = 400
        /\ nominal_result[w] = NoRef

NominalFailed(w) ==
    nominal_result'[w] # NoRef /\ IsError(heap'[nominal_result'[w]])

RealFailed(w) ==
    final_result'[w] # NoRef /\ IsError(heap'[final_result'[w]])

\* C3: the handler answers 503 exactly when a cache is None or empty, and then
\* calls no calculator function; 400 when start_date >= end_date or when the
\* nominal or the real step returned an error; the result record otherwise.
C3_StatusCodes ==
    [][\A w \in Workers :
          Completes(w) =>
              /\ response'[w].status \in {200, 400, 503}
              /\ response'[w].status = 503 <=> CacheMissing
              /\ response'[w].status = 503 => NoCalculatorCalled(w)
              /\ response'[w].status = 400 <=>
                    /\ ~CacheMissing
                    /\ StartNotBeforeEnd(w) \/ NominalFailed(w) \/ RealFailed(w)
              /\ response'[w].status = 200 =>
                    /\ final_result'[w] = nominal_result'[w]
                    /\ response'[w].body = heap'[final_result'[w]]
                    /\ DOMAIN response'[w].body = NominalFields \cup RealFields]_vars

C3_Witness ==
    \E w \in Workers :
        /\ pc[w] = "done"
        /\ CalculatorRequest(w)
        /\ response[w].status = 400
        /\ nominal_result[w] # NoRef
        /\ final_result[w] # NoRef
        /\ ~IsError(heap[nominal_result[w]])
        /\ heap[final_result[w]] = [error |-> InsufficientCPI]

\* C5: a success record of /calculator has end_date after start_date and a
\* positive finite initial_investment.
C5_PositiveInvestment ==
    \A w \in Workers :
        (pc[w] = "done" /\ CalculatorRequest(w) /\ response[w].status = 200) =>
            /\ response[w].body.end_date.day > response[w].body.start_date.day
            /\ IsFinite(response[w].body.initial_investment)
            /\ Sign(response[w].body.initial_investment) > 0

\* The dicts a thread holds through its locals.
Held(w) == {nominal_result[w], final_result[w]} \ {NoRef}

\* C7: once loaded, the two caches are never written again; no two requests
\* hold the same result dict, the dict a call creates is one nobody held, and
\* a step of one request changes no dict another request holds.
C7_NoSharedWrites ==
    /\ [](\A v, w \in Workers : v # w => Held(v) \cap Held(w) = {})
    /\ [][/\ SP500_DATA_CACHE.bound =>
                /\ SP500_DATA_CACHE' = SP500_DATA_CACHE
                /\ CPI_DATA_CACHE' = CPI_DATA_CACHE
          /\ \A w \in Workers :
                /\ Held(w) \subseteq Held(w)' =>
                      \A r \in Held(w)' \ Held(w) : IsFree(heap[r])
                /\ pc'[w] = pc[w] =>
                      \A r \in Held(w) : heap'[r] = heap[r]]_vars

C7_Witness ==
    \E v, w \in Workers :
        /\ v # w
        /\ pc[v] = "call_real"
        /\ pc[w] = "done"
        /\ response[w].status = 200
        /\ Held(v) # {}
        /\ Held(w) # {}
        /\ SP500_DATA_CACHE.bound

====
